---- MODULE Spec2Model ----
(***************************************************************************)
(* Model of the code emitter in src/codegen/general.rs of gir: the version *)
(* guards, the import aggregation of uses() and the wrapper declarations   *)
(* (fundamental, object/interface, boxed, auto-boxed, shared), the         *)
(* attribute helpers and escape_string.  One call is made per behaviour,   *)
(* on a sink that accepts every write or fails at its k-th write call.     *)
(*                                                                         *)
(* The output sink is a sequence of lines.  A line is a record             *)
(*   [kind, indent, commented, pred, text, cont]                           *)
(* kind names the format string that produced it, indent and commented are *)
(* the tabs(indent) and "//" prefix, pred is the cfg predicate placed in   *)
(* the format string and text is the sequence of the other substituted     *)
(* values, in the order of the format string.  cont marks a line that was *)
(* written by the same write call as the line before it (a string with an  *)
(* embedded newline).                                                      *)
(***************************************************************************)
EXTENDS Integers, Sequences, FiniteSets, TLC

\* ----------------------------------------------------------------- bounds
MaxMinor == 1
MaxImports == 2
MaxParents == 2
MaxIndent == 1
MaxFailAt == 2
MaxStrLen == 3

\* ------------------------------------------------------------ Option<T>
None == <<>>
Some(x) == <<x>>
IsSome(o) == Len(o) = 1
IsNone(o) == Len(o) = 0
Unwrap(o) == o[1]

\* ------------------------------------------------------------- versions
\* (major, minor, micro): 1.MaxMinor.0 and 2.0.0 .. 2.(MaxMinor-1).0
Versions == {<<1, MaxMinor, 0>>} \cup {<<2, min, 0>> : min \in 0..(MaxMinor - 1)}
OptVersions == {None} \cup {Some(v) : v \in Versions}

\* Version's derived ordering: lexicographic on (major, minor, micro)
VersionGT(a, b) ==
    \/ a[1] > b[1]
    \/ a[1] = b[1] /\ a[2] > b[2]
    \/ a[1] = b[1] /\ a[2] = b[2] /\ a[3] > b[3]

\* ----------------------------------------------------------- namespaces
MAIN == 1
EXT == 2
NsIds == {MAIN, EXT}
OptNsIds == {None} \cup {Some(n) : n \in NsIds}

\* env.namespaces[ns].crate_name
crate_name(ns) == IF ns = MAIN THEN "main" ELSE "ext"

\* env.config.min_required_version(env, ns_id): the minimum required
\* version of the namespace, of the main one when ns_id is None
min_required_version(e, ns_id) ==
    LET ns == IF IsSome(ns_id) THEN Unwrap(ns_id) ELSE MAIN
    IN  IF ns = MAIN THEN e.main ELSE e.ext

Envs == [main : OptVersions, ext : OptVersions]
\* the environments as seen by the entry points that look the minimum
\* required version up with ns_id = None only
MainEnvs == {e \in Envs : IsNone(e.ext)}

\* ---------------------------------------------------------------- lines
\* a cfg predicate: a version feature (Version::to_cfg with the optional
\* crate prefix) or a joined list of feature constraints
NoPred == [ns |-> None, v |-> None, cs |-> <<>>]
to_cfg(v, namespace_name) == [ns |-> namespace_name, v |-> Some(v), cs |-> <<>>]
ConstraintsPred(cs) == [ns |-> None, v |-> None, cs |-> cs]

Line(kind, indent, commented, pred, text) ==
    [kind |-> kind, indent |-> indent, commented |-> commented,
     pred |-> pred, text |-> text, cont |-> FALSE]
\* the line after an embedded "\n" of the string being written
Continued(l) == [l EXCEPT !.cont = TRUE]
Plain(kind, indent, text) == Line(kind, indent, FALSE, NoPred, text)

\* "{0}{1}#[cfg(any({2}, feature = \"dox\"))]"
cfg_condition_string_no_doc(cfg_condition, commented, indent) ==
    IF IsSome(cfg_condition)
    THEN Some(<<Line("cfg_any_dox", indent, commented, Unwrap(cfg_condition), <<>>)>>)
    ELSE None

\* the documentation line written without the comment marker
cfg_condition_string_doc_active(cfg_condition, commented, indent) ==
    IF IsSome(cfg_condition)
    THEN Some(<<Line("cfg_attr_doc", indent, FALSE, Unwrap(cfg_condition), <<>>)>>)
    ELSE None

\* "{0}{1}#[cfg_attr(feature = \"dox\", doc(cfg({2})))]"
cfg_condition_string_doc(cfg_condition, commented, indent) ==
    IF IsSome(cfg_condition)
    THEN Some(<<Line("cfg_attr_doc", indent, commented, Unwrap(cfg_condition), <<>>)>>)
    ELSE None

\* the two strings joined by "\n": two lines once written
cfg_condition_string(cfg_condition, commented, indent) ==
    IF IsSome(cfg_condition)
    THEN Some(Unwrap(cfg_condition_string_no_doc(cfg_condition, commented, indent))
              \o <<Continued(Unwrap(cfg_condition_string_doc(cfg_condition, commented, indent))[1])>>)
    ELSE None

\* the prefix with the crate name if the namespace is not the main one
namespace_name(ns_id) ==
    IF IsSome(ns_id) /\ Unwrap(ns_id) # MAIN THEN Some(crate_name(Unwrap(ns_id))) ELSE None

should_generate_lax(e, ns_id, version) ==
    LET to_compare_with == min_required_version(e, ns_id)
    IN  IF IsSome(version) /\ IsSome(to_compare_with)
        THEN ~VersionGT(Unwrap(to_compare_with), Unwrap(version))
        ELSE IsSome(version)

\* let should_generate = match (version, to_compare_with) { ... }
should_generate(e, ns_id, version) ==
    LET to_compare_with == min_required_version(e, ns_id)
    IN  IF IsSome(version) /\ IsSome(to_compare_with)
        THEN VersionGT(Unwrap(version), Unwrap(to_compare_with))
        ELSE IsSome(version)

version_condition_string(e, ns_id, version, commented, indent) ==
    IF should_generate(e, ns_id, version)
    THEN cfg_condition_string(Some(to_cfg(Unwrap(version), namespace_name(ns_id))),
                              commented, indent)
    ELSE None

\* the lines version_condition writes to the sink
version_condition(e, ns_id, version, commented, indent) ==
    LET s == version_condition_string(e, ns_id, version, commented, indent)
    IN  IF IsSome(s) THEN Unwrap(s) ELSE <<>>

\* the lines version_condition_no_doc writes to the sink
version_condition_no_doc(e, ns_id, version, commented, indent) ==
    IF should_generate(e, ns_id, version)
    THEN LET s == cfg_condition_string_no_doc(
                      Some(to_cfg(Unwrap(version), namespace_name(ns_id))),
                      commented, indent)
         IN  IF IsSome(s) THEN Unwrap(s) ELSE <<>>
    ELSE <<>>

\* "{}{}#[cfg(not(any({}, feature = \"dox\")))]"
not_version_condition_no_dox(e, ns_id, version, commented, indent) ==
    IF IsSome(version)
    THEN <<Line("cfg_not_any_dox", indent, commented,
                to_cfg(Unwrap(version), namespace_name(ns_id)), <<>>)>>
    ELSE <<>>

\* a render: the lines written and how the call ended
Ok(lines) == [lines |-> lines, result |-> "ok"]
Panic(lines) == [lines |-> lines, result |-> "panic"]

\* ------------------------------------------------------ wrapper pieces
\* env.main_sys_crate_name()
main_sys_crate_name == "ffi"

\* use_glib_type(env, name): the name qualified with the glib crate
use_glib_type(name) == <<"glib", name>>

\* derives(): one attribute line per Derive
RECURSIVE derives(_, _)
derives(derive, indent) ==
    IF derive = <<>> THEN <<>>
    ELSE LET d == Head(derive)
             s == IF IsSome(d.cfg_condition)
                  THEN Line("cfg_attr_derive", indent, FALSE,
                            ConstraintsPred(<<Unwrap(d.cfg_condition)>>), d.names)
                  ELSE Plain("derive", indent, d.names)
         IN  <<s>> \o derives(Tail(derive), indent)

\* "{}{}#[doc(alias = \"{}\")]"
doc_alias(name, comment_prefix, indent) ==
    <<Line("doc_alias", indent, comment_prefix # "", NoPred, <<name>>)>>

\* "{}{}#[doc(hidden)]" if doc_hidden
doc_hidden(hidden, comment_prefix, indent) ==
    IF hidden THEN <<Line("doc_hidden", indent, comment_prefix # "", NoPred, <<>>)>>
    ELSE <<>>

\* "{}{}#[allow(deprecated)]" if allow_deprecated.is_some()
allow_deprecated(allow, commented, indent) ==
    IF IsSome(allow) THEN <<Line("allow_deprecated", indent, commented, NoPred, <<>>)>>
    ELSE <<>>

\* env.is_too_low_version: the version is not above the namespace's minimum
is_too_low_version(e, ns_id, version) ==
    LET min == min_required_version(e, ns_id)
    IN  IsSome(version) /\ IsSome(min) /\ ~VersionGT(Unwrap(version), Unwrap(min))

\* "{}{}#[deprecated = ..]" or "{}{}#[cfg_attr({}, deprecated = ..)]"
cfg_deprecated_string(e, type_tid, deprecated, commented, indent) ==
    IF IsNone(deprecated) THEN None
    ELSE LET v == Unwrap(deprecated)
         IN  IF is_too_low_version(e, type_tid, deprecated)
             THEN Some(<<Line("deprecated", indent, commented, NoPred, <<v>>)>>)
             ELSE Some(<<Line("cfg_attr_deprecated", indent, commented,
                              to_cfg(v, None), <<v>>)>>)

\* the lines cfg_deprecated, cfg_condition, cfg_condition_no_doc and
\* cfg_condition_doc write to the sink
cfg_deprecated(e, type_tid, deprecated, commented, indent) ==
    LET s == cfg_deprecated_string(e, type_tid, deprecated, commented, indent)
    IN  IF IsSome(s) THEN Unwrap(s) ELSE <<>>
cfg_condition(cfg, commented, indent) ==
    LET s == cfg_condition_string(cfg, commented, indent)
    IN  IF IsSome(s) THEN Unwrap(s) ELSE <<>>
cfg_condition_no_doc(cfg, commented, indent) ==
    LET s == cfg_condition_string_no_doc(cfg, commented, indent)
    IN  IF IsSome(s) THEN Unwrap(s) ELSE <<>>
cfg_condition_doc(cfg, commented, indent) ==
    LET s == cfg_condition_string_doc(cfg, commented, indent)
    IN  IF IsSome(s) THEN Unwrap(s) ELSE <<>>

\* if let (Some(init), Some(copy_into), Some(clear)) = (...) { three lines }
init_group(init, copy_into, clear) ==
    IF IsSome(init) /\ IsSome(copy_into) /\ IsSome(clear)
    THEN << Plain("init", 2, <<Unwrap(init)>>),
            Plain("copy_into", 2, <<Unwrap(copy_into)>>),
            Plain("clear", 2, <<Unwrap(clear)>>) >>
    ELSE <<>>

type_line(get_type_fn) ==
    IF IsSome(get_type_fn)
    THEN <<Plain("type_", 2, <<main_sys_crate_name, Unwrap(get_type_fn)>>)>>
    ELSE <<>>

define_boxed_type_internal(a, get_type_fn) ==
    << Plain("wrapper_open", 0, use_glib_type("wrapper!")) >>
    \o derives(a.derive, 1)
    \o << Plain("struct", 1, <<a.visibility, a.type_name,
                               IF a.boxed_inline THEN "BoxedInline" ELSE "Boxed",
                               main_sys_crate_name, a.glib_name>>),
          Plain("blank", 0, <<>>),
          Plain("match_fn_open", 1, <<>>),
          Plain("copy", 2, <<main_sys_crate_name, a.copy_fn.glib_name,
                             IF a.copy_fn.first_parameter_mut
                             THEN "mut_override(ptr)" ELSE "ptr">>),
          Plain("free", 2, <<main_sys_crate_name, a.free_fn>>) >>
    \o init_group(a.init_function_expression, a.copy_into_function_expression,
                  a.clear_function_expression)
    \o type_line(get_type_fn)
    \o << Plain("match_fn_close", 1, <<>>), Plain("wrapper_close", 0, <<>>) >>

\* version_condition(w, env, None, get_type_version, false, 0)
straddle_first_guard(e, version) == version_condition(e, None, version, FALSE, 0)

\* the complement guard written without its "dox" alternative
straddle_second_guard_plain(e, version) ==
    <<Line("cfg_not", 0, FALSE, to_cfg(Unwrap(version), None), <<>>)>>

\* not_version_condition_no_dox(w, env, None, get_type_version, false, 0)
straddle_second_guard(e, version) ==
    not_version_condition_no_dox(e, None, version, FALSE, 0)

\* get_type_fn: Option<(String, Option<Version>)> = None or Some(<<name, version>>)
define_boxed_type(e, a) ==
    << Plain("blank", 0, <<>>) >>
    \o IF IsSome(a.get_type_fn)
       THEN LET get_type_fn == Unwrap(a.get_type_fn)[1]
                get_type_version == Unwrap(a.get_type_fn)[2]
            IN  IF IsSome(get_type_version)
                THEN straddle_first_guard(e, get_type_version)
                     \o define_boxed_type_internal(a, Some(get_type_fn))
                     \o << Plain("blank", 0, <<>>) >>
                     \o straddle_second_guard(e, get_type_version)
                     \o define_boxed_type_internal(a, None)
                ELSE define_boxed_type_internal(a, Some(get_type_fn))
       ELSE define_boxed_type_internal(a, None)

define_auto_boxed_type(a) ==
    << Plain("blank", 0, <<>>),
       Plain("wrapper_open", 0, use_glib_type("wrapper!")) >>
    \o derives(a.derive, 1)
    \o << Plain("struct", 1, <<a.visibility, a.type_name,
                               IF a.boxed_inline THEN "BoxedInline" ELSE "Boxed",
                               main_sys_crate_name, a.glib_name>>),
          Plain("blank", 0, <<>>),
          Plain("match_fn_open", 1, <<>>),
          Plain("copy", 2, use_glib_type("gobject_ffi::g_boxed_copy")
                           \o <<main_sys_crate_name, a.get_type_fn,
                                main_sys_crate_name, a.glib_name>>),
          Plain("free", 2, use_glib_type("gobject_ffi::g_boxed_free")
                           \o <<main_sys_crate_name, a.get_type_fn>>) >>
    \o init_group(a.init_function_expression, a.copy_into_function_expression,
                  a.clear_function_expression)
    \o << Plain("type_", 2, <<main_sys_crate_name, a.get_type_fn>>),
          Plain("match_fn_close", 1, <<>>), Plain("wrapper_close", 0, <<>>) >>

define_shared_type_internal(a, get_type_fn) ==
    << Plain("wrapper_open", 0, use_glib_type("wrapper!")) >>
    \o derives(a.derive, 1)
    \o << Plain("struct", 1, <<a.visibility, a.type_name, "Shared",
                               main_sys_crate_name, a.glib_name>>),
          Plain("blank", 0, <<>>),
          Plain("match_fn_open", 1, <<>>),
          Plain("ref", 2, <<main_sys_crate_name, a.ref_fn, "ptr">>),
          Plain("unref", 2, <<main_sys_crate_name, a.unref_fn, "ptr">>) >>
    \o type_line(get_type_fn)
    \o << Plain("match_fn_close", 1, <<>>), Plain("wrapper_close", 0, <<>>) >>

define_shared_type(e, a) ==
    << Plain("blank", 0, <<>>) >>
    \o IF IsSome(a.get_type_fn)
       THEN LET get_type_fn == Unwrap(a.get_type_fn)[1]
                get_type_version == Unwrap(a.get_type_fn)[2]
            IN  IF IsSome(get_type_version)
                THEN straddle_first_guard(e, get_type_version)
                     \o define_shared_type_internal(a, Some(get_type_fn))
                     \o << Plain("blank", 0, <<>>) >>
                     \o straddle_second_guard(e, get_type_version)
                     \o define_shared_type_internal(a, None)
                ELSE define_shared_type_internal(a, Some(get_type_fn))
       ELSE define_shared_type_internal(a, None)

\* ------------------------------------------------------------ ancestors
\* env.library.type_(type_id): the types the ancestor entries refer to
Types ==
    [base    |-> [ns_id |-> MAIN, kind |-> "Class", c_type |-> "GBase",
                  ref_fn |-> Some("g_base_ref"), unref_fn |-> Some("g_base_unref")],
     mid     |-> [ns_id |-> MAIN, kind |-> "Class", c_type |-> "GMid",
                  ref_fn |-> None, unref_fn |-> None],
     half    |-> [ns_id |-> MAIN, kind |-> "Class", c_type |-> "GHalf",
                  ref_fn |-> Some("g_half_ref"), unref_fn |-> None],
     iface   |-> [ns_id |-> MAIN, kind |-> "Interface", c_type |-> "GIface",
                  ref_fn |-> None, unref_fn |-> None],
     extbase |-> [ns_id |-> EXT, kind |-> "Class", c_type |-> "EBase",
                  ref_fn |-> Some("e_base_ref"), unref_fn |-> Some("e_base_unref")]]
TypeIds == DOMAIN Types
type_(type_id) == Types[type_id]

\* the inclusion status of an ancestor entry
Statuses == {"active", "ignored", "unspecified"}
\* p.status.ignored(): only active entries take part
ignored(status) == status # "active"

\* StatusedTypeId: type_id, name, status
TypeNames == [base |-> "Base", mid |-> "Mid", half |-> "Half", iface |-> "Iface",
              extbase |-> "ExtBase"]
StatusedTypeIds ==
    {[type_id |-> t, name |-> TypeNames[t], status |-> st] : t \in TypeIds, st \in Statuses}
RECURSIVE SeqsUpTo(_, _)
SeqsUpTo(S, n) ==
    IF n = 0 THEN {<<>>}
    ELSE LET shorter == SeqsUpTo(S, n - 1)
         IN  shorter \cup {Append(q, x) : q \in {r \in shorter : Len(r) = n - 1}, x \in S}

\* env.sys_crate_import(type_id)
sys_crate_import(type_id) ==
    IF type_(type_id).ns_id = MAIN THEN main_sys_crate_name
    ELSE crate_name(type_(type_id).ns_id) \o "::ffi"

format_parent_name(p) ==
    IF type_(p.type_id).ns_id = MAIN THEN p.name
    ELSE crate_name(type_(p.type_id).ns_id) \o "::" \o p.name

MapNames(q) == [i \in 1..Len(q) |-> format_parent_name(q[i])]

\* parents.iter().find_map(|p| match type_ { Class => Some((ref.unwrap(), ...)), _ => None })
\* "none": no entry is a class; "panic": the first class entry has no ref or
\* unref function and the closure's unwrap() fails; otherwise the entry
RECURSIVE find_parent(_)
find_parent(parents) ==
    IF parents = <<>> THEN [found |-> "none"]
    ELSE LET p == Head(parents)
             class == type_(p.type_id)
         IN  IF class.kind = "Class"
             THEN IF IsSome(class.ref_fn) /\ IsSome(class.unref_fn)
                  THEN [found |-> "some", p |-> p]
                  ELSE [found |-> "panic"]
             ELSE find_parent(Tail(parents))

fundamental_head(a) ==
    << Plain("wrapper_open", 0, use_glib_type("wrapper!")) >>
    \o doc_alias(a.glib_name, "", 1)
    \o << Plain("struct", 1, <<a.visibility, a.type_name, "Shared",
                               main_sys_crate_name, a.glib_name>>),
          Plain("blank", 0, <<>>),
          Plain("match_fn_open", 1, <<>>) >>

fundamental_tail(a, ref_fn, unref_fn, ptr, ffi_crate_name) ==
    << Plain("ref", 2, <<ffi_crate_name, ref_fn, ptr>>),
       Plain("unref", 2, <<ffi_crate_name, unref_fn, ptr>>),
       Plain("match_fn_close", 1, <<>>),
       Plain("wrapper_close", 0, <<>>),
       Plain("blank", 0, <<>>),
       Continued(Plain("blank", 0, <<>>)),
       Plain("impl_static_type_open", 0, use_glib_type("StaticType") \o <<a.type_name>>),
       Plain("fn_static_type_open", 1, use_glib_type("Type")),
       Plain("from_glib", 2, <<main_sys_crate_name, a.glib_func_name>>),
       Plain("fn_close", 1, <<>>),
       Plain("impl_close", 0, <<>>) >>

define_fundamental_type(a) ==
    IF a.parents = <<>>
    THEN \* it's the super-type, it must have a ref/unref functions
         IF IsSome(a.ref_func) /\ IsSome(a.unref_func)
         THEN Ok(fundamental_head(a)
                 \o fundamental_tail(a, Unwrap(a.ref_func), Unwrap(a.unref_func),
                                     "ptr", main_sys_crate_name))
         ELSE Panic(fundamental_head(a))
    ELSE LET f == find_parent(a.parents)
         IN  IF f.found = "some"
             THEN LET class == type_(f.p.type_id)
                      parent_sys_crate_name == sys_crate_import(f.p.type_id)
                  IN  Ok(fundamental_head(a)
                         \o fundamental_tail(a, Unwrap(class.ref_fn), Unwrap(class.unref_fn),
                                "ptr as *mut " \o parent_sys_crate_name \o "::" \o class.c_type,
                                parent_sys_crate_name))
             ELSE Panic(fundamental_head(a))

IsKind(kind, p) == type_(p.type_id).kind = kind /\ ~ignored(p.status)

\* the two clauses pushed without the ',' between them
parents_string_no_comma(parents, interfaces) ==
    (IF parents # <<>> THEN <<"@extends">> \o parents ELSE <<>>)
    \o (IF interfaces # <<>> THEN <<"@implements">> \o interfaces ELSE <<>>)

\* let mut parents_string = String::new(); ... push_str(" @extends ..") ...
parents_string(parents, interfaces) ==
    (IF parents # <<>> THEN <<"@extends">> \o parents ELSE <<>>)
    \o (IF interfaces # <<>>
        THEN (IF parents # <<>> THEN <<",">> ELSE <<>>)
             \o <<"@implements">> \o interfaces
        ELSE <<>>)

define_object_type(a) ==
    LET sys_crate_name == main_sys_crate_name
        class_name == IF IsSome(a.glib_class_name)
                      THEN ", " \o sys_crate_name \o "::" \o Unwrap(a.glib_class_name)
                      ELSE ""
        kind_name == IF a.is_interface THEN "Interface" ELSE "Object"
        NotIgnored(p) == ~ignored(p.status)
        IsInterface(p) == IsKind("Interface", p)
        IsClass(p) == IsKind("Class", p)
        active == SelectSeq(a.parents, NotIgnored)
        header(kn) == <<a.visibility, a.type_name, kn, sys_crate_name, a.glib_name, class_name>>
        interfaces == MapNames(SelectSeq(active, IsInterface))
        parents == MapNames(SelectSeq(active, IsClass))
        struct == IF active = <<>> THEN header(kind_name)
                  ELSE IF a.is_interface
                       THEN header("Interface") \o <<"@requires">> \o MapNames(active)
                       ELSE header("Object") \o parents_string(parents, interfaces)
    IN  Ok(<< Plain("wrapper_open", 0, use_glib_type("wrapper!")) >>
           \o doc_alias(a.glib_name, "", 1)
           \o << Plain("struct", 1, struct),
                 Plain("blank", 0, <<>>),
                 Plain("match_fn_open", 1, <<>>),
                 Plain("type_", 2, <<sys_crate_name, a.glib_func_name>>),
                 Plain("match_fn_close", 1, <<>>),
                 Plain("wrapper_close", 0, <<>>) >>)

\* ---------------------------------------------------------------- uses
\* the lexical order of the strings that occur as map keys
StrRank == [X |-> 1, Y |-> 2, Z |-> 3, a |-> 4, b |-> 5, c1 |-> 6]
StrLess(s, t) == StrRank[s] < StrRank[t]

RECURSIVE SeqLess(_, _)
SeqLess(p, q) ==
    IF q = <<>> THEN FALSE
    ELSE IF p = <<>> THEN TRUE
    ELSE IF Head(p) = Head(q) THEN SeqLess(Tail(p), Tail(q))
    ELSE StrLess(Head(p), Head(q))

\* Option<Version>: None sorts first
OptVersionLess(v, w) ==
    IF IsNone(w) THEN FALSE
    ELSE IF IsNone(v) THEN TRUE
    ELSE VersionGT(Unwrap(w), Unwrap(v))

\* ImportConditions { version, constraints } in its derived order
ScopeLess(s, t) ==
    \/ OptVersionLess(s.version, t.version)
    \/ s.version = t.version /\ SeqLess(s.constraints, t.constraints)

\* the order of the keys (&str, Option<ImportConditions>) of grouped_imports
KeyLess(k, l) ==
    \/ StrLess(k.crate_name, l.crate_name)
    \/ /\ k.crate_name = l.crate_name
       /\ IF IsNone(l.scope) THEN FALSE
          ELSE IF IsNone(k.scope) THEN TRUE
          ELSE ScopeLess(Unwrap(k.scope), Unwrap(l.scope))

\* Version::if_stricter_than(version, other_version)
if_stricter_than(version, other_version) ==
    IF IsSome(version) /\ IsSome(other_version)
       /\ ~VersionGT(Unwrap(version), Unwrap(other_version))
    THEN None
    ELSE version

\* the version kept although the minimum required version covers it
normalized_version_kept(e, scope, outer_version) ==
    if_stricter_than(scope.version, outer_version)

\* scope.version after the two comparisons at the head of the loop body
normalized_version(e, scope, outer_version) ==
    LET v == if_stricter_than(scope.version, outer_version)
        to_compare_with == min_required_version(e, None)
    IN  IF IsSome(v) /\ IsSome(to_compare_with)
        THEN IF VersionGT(Unwrap(v), Unwrap(to_compare_with)) THEN v ELSE None
        ELSE v

\* the key chosen by the constraints alone: a version bound does not gate
import_key_constraints_only(e, req, outer_version) ==
    LET scope == [version |-> normalized_version(e, req.scope, outer_version),
                  constraints |-> req.scope.constraints]
    IN  IF scope.constraints = <<>>
        THEN [crate_name |-> req.name[1], scope |-> None]
        ELSE [crate_name |-> req.name[1], scope |-> Some(scope)]

\* the key under which the loop body files a request: name = <<crate, import>>
import_key(e, req, outer_version) ==
    LET scope == [version |-> normalized_version(e, req.scope, outer_version),
                  constraints |-> req.scope.constraints]
    IN  IF scope.constraints = <<>> /\ IsNone(scope.version)
        THEN [crate_name |-> req.name[1], scope |-> None]
        ELSE [crate_name |-> req.name[1], scope |-> Some(scope)]

\* grouped_imports after the first loop: the keys, and for each key the
\* imports pushed under it, in the order of imports.iter()
grouped_keys(e, imports, outer_version) ==
    {import_key(e, imports[i], outer_version) : i \in 1..Len(imports)}
RECURSIVE grouped_names(_, _, _, _)
grouped_names(e, imports, outer_version, key) ==
    IF imports = <<>> THEN <<>>
    ELSE (IF import_key(e, Head(imports), outer_version) = key
          THEN <<Head(imports).name[2]>> ELSE <<>>)
         \o grouped_names(e, Tail(imports), outer_version, key)

\* the iteration order of the BTreeMap
RECURSIVE sorted_keys(_)
sorted_keys(K) ==
    IF K = {} THEN <<>>
    ELSE LET m == CHOOSE k \in K : \A l \in K \ {k} : KeyLess(k, l)
         IN  <<m>> \o sorted_keys(K \ {m})

\* the version guard of a group written by version_condition_no_doc
group_version_guard_no_doc(e, version) ==
    version_condition_no_doc(e, None, version, FALSE, 0)

\* version_condition(w, env, None, scope.version, false, 0)
group_version_guard(e, version) == version_condition(e, None, version, FALSE, 0)

\* the body of the second loop for one group
group_lines(e, key, names) ==
    (IF IsSome(key.scope)
     THEN LET scope == Unwrap(key.scope)
          IN  (IF scope.constraints # <<>>
               THEN << Line("cfg_any_dox", 0, FALSE, ConstraintsPred(scope.constraints), <<>>),
                       Line("cfg_attr_doc", 0, FALSE, ConstraintsPred(scope.constraints), <<>>) >>
               ELSE <<>>)
              \o group_version_guard(e, scope.version)
     ELSE <<>>)
    \o << Plain("use", 0, <<key.crate_name>> \o names) >>

RECURSIVE groups_lines(_, _, _, _)
groups_lines(e, imports, outer_version, keys) ==
    IF keys = <<>> THEN <<>>
    ELSE group_lines(e, Head(keys), grouped_names(e, imports, outer_version, Head(keys)))
         \o groups_lines(e, imports, outer_version, Tail(keys))

\* a name without "::" makes split_once(..).unwrap() fail in the first loop
uses(e, imports, outer_version) ==
    IF \E i \in 1..Len(imports) : Len(imports[i].name) < 2
    THEN Panic(<< Plain("blank", 0, <<>>) >>)
    ELSE Ok(<< Plain("blank", 0, <<>>) >>
            \o groups_lines(e, imports, outer_version,
                            sorted_keys(grouped_keys(e, imports, outer_version))))

\* ------------------------------------------------------- escape_string
\* a string is the sequence of its chars
Chars == {"\"", "\\", "'", "a"}

\* the match escaping only the double quote
escape_char_quote_only(c) == IF c = "\"" THEN <<"\\", c>> ELSE <<c>>

\* one turn of the loop: push a backslash for '"' and '\\', then the char
escape_char(c) == IF c \in {"\"", "\\"} THEN <<"\\", c>> ELSE <<c>>

RECURSIVE escape_string(_)
escape_string(s) ==
    IF s = <<>> THEN <<>> ELSE escape_char(Head(s)) \o escape_string(Tail(s))

\* ------------------------------------------------------- bounded inputs
Strings == SeqsUpTo(Chars, MaxStrLen)
CfgConditions == {None, Some(ConstraintsPred(<<"unix">>))}
CommentPrefixes == {"", "//"}
Derives == { <<>>,
             <<[names |-> <<"Debug", "Clone">>, cfg_condition |-> None]>>,
             <<[names |-> <<"Debug">>, cfg_condition |-> None],
               [names |-> <<"Hash">>, cfg_condition |-> Some("feature = \"h\"")]>> }
GetTypeFns == {None} \cup {Some(<<"foo_get_type", v>>) : v \in OptVersions}
OptExpr(e) == {None, Some(e)}

BoxedArgs ==
    [op : {"define_boxed_type"},
     type_name : {"Foo"}, glib_name : {"GFoo"}, visibility : {"pub"},
     copy_fn : [glib_name : {"foo_copy"}, first_parameter_mut : BOOLEAN],
     free_fn : {"foo_free"},
     boxed_inline : BOOLEAN,
     init_function_expression : OptExpr("|_ptr| ()"),
     copy_into_function_expression : OptExpr("|_dest, _src| ()"),
     clear_function_expression : OptExpr("|_ptr| ()"),
     get_type_fn : GetTypeFns,
     derive : Derives]

AutoBoxedArgs ==
    [op : {"define_auto_boxed_type"},
     type_name : {"Foo"}, glib_name : {"GFoo"}, visibility : {"pub"},
     boxed_inline : BOOLEAN,
     init_function_expression : OptExpr("|_ptr| ()"),
     copy_into_function_expression : OptExpr("|_dest, _src| ()"),
     clear_function_expression : OptExpr("|_ptr| ()"),
     get_type_fn : {"foo_get_type"},
     derive : Derives]

ParentLists == SeqsUpTo(StatusedTypeIds, MaxParents)

FundamentalArgs ==
    [op : {"define_fundamental_type"},
     type_name : {"Foo"}, glib_name : {"GFoo"}, glib_func_name : {"foo_get_type"},
     visibility : {"pub"},
     ref_func : OptExpr("foo_ref"), unref_func : OptExpr("foo_unref"),
     parents : ParentLists]

ObjectArgs ==
    [op : {"define_object_type"},
     type_name : {"Foo"}, glib_name : {"GFoo"}, glib_func_name : {"foo_get_type"},
     glib_class_name : OptExpr("GFooClass"),
     visibility : {"pub"},
     is_interface : BOOLEAN,
     parents : ParentLists]

\* imports.iter(): (name, scope) pairs, each name once, in the order the
\* Imports collection yields them
ImportNames == {<<"a", "X">>, <<"a", "Y">>, <<"b", "X">>, <<"Z">>}
ImportScopes == [version : OptVersions, constraints : {<<>>, <<"c1">>}]
ImportRequests == [name : ImportNames, scope : ImportScopes]
ImportLists ==
    {q \in SeqsUpTo(ImportRequests, MaxImports) :
        \A i, j \in 1..Len(q) : i # j => q[i].name # q[j].name}

SharedArgs ==
    [op : {"define_shared_type"},
     type_name : {"Foo"}, glib_name : {"GFoo"}, visibility : {"pub"},
     ref_fn : {"foo_ref"}, unref_fn : {"foo_unref"},
     get_type_fn : GetTypeFns,
     derive : Derives]

\* ---------------------------------------------------------------- state
VARIABLES
    env,     \* the Env the entry point is called with (minimum required versions)
    pc,      \* "idle" before the entry point is called, "done" after
    call,    \* the entry point called and its arguments
    out,     \* the lines written to the sink w
    result,  \* "none", "ok" (Ok(())), "err" (the sink's error) or "panic"
    fail_at, \* the sink: None, or Some(k) when its k-th write call fails
    attempts, \* the number of write calls made on the sink
    ret      \* the String a call returned (escape_string), as its chars

vars == <<env, pc, call, out, result, fail_at, attempts, ret>>

Init ==
    /\ env = [main |-> None, ext |-> None]
    /\ pc = "idle"
    /\ call = [op |-> "none"]
    /\ out = <<>>
    /\ result = "none"
    /\ fail_at = None
    /\ attempts = 0
    /\ ret = <<>>

\* the sinks: one that accepts every write, and those whose k-th write fails
FailAts == {None} \cup {Some(k) : k \in 1..MaxFailAt}

\* the write calls of a render: a line starts one unless it continues the
\* string of the line before it
WriteStarts(lines) == {i \in 1..Len(lines) : ~lines[i].cont}
NthWriteStart(lines, k) ==
    CHOOSE i \in WriteStarts(lines) : Cardinality({j \in WriteStarts(lines) : j <= i}) = k
WriteEnd(lines, i) ==
    CHOOSE j \in i..Len(lines) :
        /\ \A m \in (i + 1)..j : lines[m].cont
        /\ j = Len(lines) \/ ~lines[j + 1].cont

\* the writes made as if the failed one were `let _ = writeln!(..)`: the
\* error is dropped and the later writes are still made
write_all_ignoring_error(r, f) ==
    LET W == Cardinality(WriteStarts(r.lines))
    IN  IF IsSome(f) /\ Unwrap(f) <= W
        THEN LET i == NthWriteStart(r.lines, Unwrap(f))
             IN  [lines |-> SubSeq(r.lines, 1, i - 1)
                            \o SubSeq(r.lines, WriteEnd(r.lines, i) + 1, Len(r.lines)),
                  result |-> r.result, attempts |-> W]
        ELSE [lines |-> r.lines, result |-> r.result, attempts |-> W]

\* writeln!(w, ..)? at every write of a render r: the first failing write
\* returns its error from the entry point, nothing is written after it
write_all(r, f) ==
    LET W == Cardinality(WriteStarts(r.lines))
    IN  IF IsSome(f) /\ Unwrap(f) <= W
        THEN [lines |-> SubSeq(r.lines, 1, NthWriteStart(r.lines, Unwrap(f)) - 1),
              result |-> "err", attempts |-> Unwrap(f)]
        ELSE [lines |-> r.lines, result |-> r.result, attempts |-> W]

Finish(e, c, r) ==
    \E f \in FailAts :
        LET s == write_all(r, f)
        IN  /\ pc' = "done"
            /\ env' = e
            /\ call' = c
            /\ fail_at' = f
            /\ out' = s.lines
            /\ result' = s.result
            /\ attempts' = s.attempts
            /\ ret' = ret

VersionConditionCall ==
    /\ pc = "idle"
    /\ \E e \in Envs, ns_id \in OptNsIds, version \in OptVersions,
       commented \in BOOLEAN, indent \in 0..MaxIndent :
        Finish(e, [op |-> "version_condition", ns_id |-> ns_id, version |-> version,
                   commented |-> commented, indent |-> indent],
               Ok(version_condition(e, ns_id, version, commented, indent)))

VersionConditionNoDocCall ==
    /\ pc = "idle"
    /\ \E e \in Envs, ns_id \in OptNsIds, version \in OptVersions,
       commented \in BOOLEAN, indent \in 0..MaxIndent :
        Finish(e, [op |-> "version_condition_no_doc", ns_id |-> ns_id, version |-> version,
                   commented |-> commented, indent |-> indent],
               Ok(version_condition_no_doc(e, ns_id, version, commented, indent)))

DefineBoxedType ==
    /\ pc = "idle"
    /\ \E e \in MainEnvs, a \in BoxedArgs : Finish(e, a, Ok(define_boxed_type(e, a)))

DefineAutoBoxedType ==
    /\ pc = "idle"
    /\ \E a \in AutoBoxedArgs : Finish(env, a, Ok(define_auto_boxed_type(a)))

DefineSharedType ==
    /\ pc = "idle"
    /\ \E e \in MainEnvs, a \in SharedArgs : Finish(e, a, Ok(define_shared_type(e, a)))

DefineFundamentalType ==
    /\ pc = "idle"
    /\ \E a \in FundamentalArgs : Finish(env, a, define_fundamental_type(a))

DefineObjectType ==
    /\ pc = "idle"
    /\ \E a \in ObjectArgs : Finish(env, a, define_object_type(a))

Uses ==
    /\ pc = "idle"
    /\ \E e \in MainEnvs, imports \in ImportLists, outer_version \in OptVersions :
        Finish(e, [op |-> "uses", imports |-> imports, outer_version |-> outer_version],
               uses(e, imports, outer_version))

\* the lines an attribute helper writes for the call c
HelperRender(e, c) ==
    CASE c.op = "cfg_deprecated" ->
            cfg_deprecated(e, c.type_tid, c.deprecated, c.commented, c.indent)
      [] c.op = "cfg_condition" -> cfg_condition(c.cfg_condition, c.commented, c.indent)
      [] c.op = "cfg_condition_no_doc" ->
            cfg_condition_no_doc(c.cfg_condition, c.commented, c.indent)
      [] c.op = "cfg_condition_doc" ->
            cfg_condition_doc(c.cfg_condition, c.commented, c.indent)
      [] c.op = "version_condition" ->
            version_condition(e, c.ns_id, c.version, c.commented, c.indent)
      [] c.op = "version_condition_no_doc" ->
            version_condition_no_doc(e, c.ns_id, c.version, c.commented, c.indent)
      [] c.op = "derives" -> derives(c.derives, c.indent)
      [] c.op = "doc_alias" -> doc_alias(c.name, c.comment_prefix, c.indent)
      [] c.op = "doc_hidden" -> doc_hidden(c.doc_hidden, c.comment_prefix, c.indent)
      [] c.op = "allow_deprecated" ->
            allow_deprecated(c.allow_deprecated, c.commented, c.indent)

HelperCall(e, c) == Finish(e, c, Ok(HelperRender(e, c)))

CfgDeprecatedCall ==
    /\ pc = "idle"
    /\ \E e \in Envs, type_tid \in OptNsIds, deprecated \in OptVersions,
       commented \in BOOLEAN, indent \in 0..MaxIndent :
        HelperCall(e, [op |-> "cfg_deprecated", type_tid |-> type_tid,
                       deprecated |-> deprecated, commented |-> commented,
                       indent |-> indent])

CfgConditionCall ==
    /\ pc = "idle"
    /\ \E op \in {"cfg_condition", "cfg_condition_no_doc", "cfg_condition_doc"},
       cfg \in CfgConditions, commented \in BOOLEAN, indent \in 0..MaxIndent :
        HelperCall(env, [op |-> op, cfg_condition |-> cfg, commented |-> commented,
                         indent |-> indent])

DerivesCall ==
    /\ pc = "idle"
    /\ \E d \in Derives, indent \in 0..MaxIndent :
        HelperCall(env, [op |-> "derives", derives |-> d, indent |-> indent])

DocAliasCall ==
    /\ pc = "idle"
    /\ \E name \in {"GFoo"}, comment_prefix \in CommentPrefixes, indent \in 0..MaxIndent :
        HelperCall(env, [op |-> "doc_alias", name |-> name,
                         comment_prefix |-> comment_prefix, indent |-> indent])

DocHiddenCall ==
    /\ pc = "idle"
    /\ \E hidden \in BOOLEAN, comment_prefix \in CommentPrefixes, indent \in 0..MaxIndent :
        HelperCall(env, [op |-> "doc_hidden", doc_hidden |-> hidden,
                         comment_prefix |-> comment_prefix, indent |-> indent])

AllowDeprecatedCall ==
    /\ pc = "idle"
    /\ \E allow \in OptVersions, commented \in BOOLEAN, indent \in 0..MaxIndent :
        HelperCall(env, [op |-> "allow_deprecated", allow_deprecated |-> allow,
                         commented |-> commented, indent |-> indent])

EscapeStringCall ==
    /\ pc = "idle"
    /\ \E s \in Strings :
        /\ pc' = "done"
        /\ call' = [op |-> "escape_string", s |-> s]
        /\ ret' = escape_string(s)
        /\ result' = "ok"
        /\ UNCHANGED <<env, out, fail_at, attempts>>

Next ==
    \/ VersionConditionCall
    \/ VersionConditionNoDocCall
    \/ DefineBoxedType
    \/ DefineAutoBoxedType
    \/ DefineSharedType
    \/ DefineFundamentalType
    \/ DefineObjectType
    \/ Uses
    \/ CfgDeprecatedCall
    \/ CfgConditionCall
    \/ DerivesCall
    \/ DocAliasCall
    \/ DocHiddenCall
    \/ AllowDeprecatedCall
    \/ EscapeStringCall

Spec == Init /\ [][Next]_vars

\* ------------------------------------------------------------------- C1
\* C1: version_condition_string / version_condition_no_doc produce no guard
\* if and only if the symbol version is absent or is not strictly greater
\* than the namespace's minimum required version; a present version with an
\* absent baseline always produces a guard, an equal one produces none.
\* the entry point returned without a sink error: everything it writes is in out
Written == pc = "done" /\ result # "err"
IsVersionGuardCall == Written /\ call.op \in {"version_condition", "version_condition_no_doc"}
Baseline == min_required_version(env, call.ns_id)
NoGuardExpected ==
    \/ IsNone(call.version)
    \/ IsSome(Baseline) /\ ~VersionGT(Unwrap(call.version), Unwrap(Baseline))
C1_GuardIffStricter ==
    IsVersionGuardCall =>
        /\ (out = <<>>) <=> NoGuardExpected
        /\ out # <<>> =>
              /\ out[1].kind = "cfg_any_dox"
              /\ out[1].pred.v = call.version
              /\ Len(out) = (IF call.op = "version_condition" THEN 2 ELSE 1)
        /\ (IsSome(call.version) /\ IsNone(Baseline)) => out # <<>>
        /\ (IsSome(call.version) /\ Baseline = call.version) => out = <<>>
C1_Witness ==
    /\ IsVersionGuardCall
    /\ IsSome(call.version) /\ Baseline = call.version
    /\ out = <<>>

\* ------------------------------------------------- reading the output
\* what a target configuration enables: a set of cfg predicates and "dox"
GuardKinds == {"cfg_any_dox", "cfg_attr_doc", "cfg_not_any_dox", "cfg_not"}
PredsIn(lines) == {lines[i].pred : i \in {j \in 1..Len(lines) : lines[j].kind \in GuardKinds}}
Configs(lines) == [on : SUBSET PredsIn(lines), dox : BOOLEAN]

\* does the attribute line let the item after it compile under cfg
LineActive(l, cfg) ==
    IF l.commented THEN TRUE
    ELSE CASE l.kind = "cfg_any_dox" -> (l.pred \in cfg.on \/ cfg.dox)
           [] l.kind = "cfg_not_any_dox" -> ~(l.pred \in cfg.on \/ cfg.dox)
           [] l.kind = "cfg_not" -> ~(l.pred \in cfg.on)
           [] OTHER -> TRUE

\* a declaration block starts at each "wrapper! {" line; its guards are the
\* attribute lines directly before it; it ends at the next closing line
Blocks(lines) == {i \in 1..Len(lines) : lines[i].kind = "wrapper_open"}
GuardsOf(lines, i) ==
    {j \in 1..(i - 1) : \A k \in j..(i - 1) : lines[k].kind \in GuardKinds}
BlockEnd(lines, i) ==
    CHOOSE j \in i..Len(lines) :
        /\ lines[j].kind = "wrapper_close"
        /\ \A k \in i..(j - 1) : lines[k].kind # "wrapper_close"
BlockHas(lines, i, kind) == \E k \in i..BlockEnd(lines, i) : lines[k].kind = kind
BlockActive(lines, i, cfg) == \A j \in GuardsOf(lines, i) : LineActive(lines[j], cfg)
ActiveBlocks(lines, cfg) == {i \in Blocks(lines) : BlockActive(lines, i, cfg)}

IsStraddleCall ==
    /\ Written
    /\ call.op \in {"define_boxed_type", "define_shared_type"}
    /\ IsSome(call.get_type_fn)
    /\ IsSome(Unwrap(call.get_type_fn)[2])
GetTypeVersion == Unwrap(Unwrap(call.get_type_fn)[2])
MainBaseline == min_required_version(env, None)

\* ------------------------------------------------------------------- C2
\* C2: for a Boxed or Shared type whose registration function has a version
\* strictly greater than the baseline, exactly two declaration blocks are
\* emitted and under every target configuration (version feature on/off,
\* dox on/off) exactly one of the two is active.
C2_ComplementGuards ==
    (IsStraddleCall /\ (IsSome(MainBaseline) => VersionGT(GetTypeVersion, Unwrap(MainBaseline))))
    => /\ Cardinality(Blocks(out)) = 2
       /\ \A cfg \in Configs(out) : Cardinality(ActiveBlocks(out, cfg)) = 1
C2_Witness ==
    /\ IsStraddleCall
    /\ IsSome(MainBaseline) /\ VersionGT(GetTypeVersion, Unwrap(MainBaseline))
    /\ call.op = "define_shared_type"
    /\ Cardinality(Blocks(out)) = 2
    /\ Cardinality(Configs(out)) = 4

\* ------------------------------------------------------------------- C3
\* C3: whenever the accessor's version differs from the baseline (also when
\* it is older), the declaration is rendered twice: the first copy after
\* the version guard and with the type_ line, the second after the
\* complement guard and without the type_ line, and exactly one copy
\* compiles under any target configuration.
FirstBlock == CHOOSE i \in Blocks(out) : \A j \in Blocks(out) : i <= j
SecondBlock == CHOOSE i \in Blocks(out) : \A j \in Blocks(out) : i >= j
C3_RenderedTwiceWhenVersionDiffers ==
    (IsStraddleCall /\ Some(GetTypeVersion) # MainBaseline)
    => /\ Cardinality(Blocks(out)) = 2
       /\ \E j \in GuardsOf(out, FirstBlock) : out[j].kind = "cfg_any_dox"
       /\ BlockHas(out, FirstBlock, "type_")
       /\ \E j \in GuardsOf(out, SecondBlock) : out[j].kind = "cfg_not_any_dox"
       /\ ~BlockHas(out, SecondBlock, "type_")
       /\ \A cfg \in Configs(out) : Cardinality(ActiveBlocks(out, cfg)) = 1

\* ------------------------------------------------------------------- C9
\* C9: for Boxed and AutoBoxed the init / copy_into / clear group is all or
\* none: all three present gives the three lines, none present gives none,
\* and one or two present makes the render fail with a contract violation.
IsBoxedCall == Written /\ call.op \in {"define_boxed_type", "define_auto_boxed_type"}
GroupPresent ==
    Cardinality({x \in {"i", "c", "l"} :
        IsSome(CASE x = "i" -> call.init_function_expression
                 [] x = "c" -> call.copy_into_function_expression
                 [] x = "l" -> call.clear_function_expression)})
GroupLines == {i \in 1..Len(out) : out[i].kind \in {"init", "copy_into", "clear"}}
C9_InitGroupAllOrNone ==
    IsBoxedCall =>
        /\ GroupPresent = 3 =>
              /\ result = "ok"
              /\ \A i \in Blocks(out) :
                    BlockHas(out, i, "init") /\ BlockHas(out, i, "copy_into")
                    /\ BlockHas(out, i, "clear")
        /\ GroupPresent = 0 => (result = "ok" /\ GroupLines = {})
        /\ GroupPresent \in {1, 2} => result = "panic"

\* -------------------------------------------------------------- C4, C5
IsFundamentalCall == Written /\ call.op = "define_fundamental_type"
HasRefUnref(p) ==
    /\ type_(p.type_id).kind = "Class"
    /\ IsSome(type_(p.type_id).ref_fn) /\ IsSome(type_(p.type_id).unref_fn)
Suppliers == {i \in 1..Len(call.parents) : HasRefUnref(call.parents[i])}
FirstSupplier == call.parents[CHOOSE i \in Suppliers : \A j \in Suppliers : i <= j]
LinesOfKind(kind) == {i \in 1..Len(out) : out[i].kind = kind}
TheLine(kind) == out[CHOOSE i \in LinesOfKind(kind) : TRUE]
CastTo(p) == "ptr as *mut " \o sys_crate_import(p.type_id) \o "::" \o type_(p.type_id).c_type

\* C4: with a non-empty ancestor list, the first ancestor in declaration
\* order that is a class and declares both ref and unref supplies the
\* ref/unref lines (its functions, the pointer cast to its foreign pointer
\* type, its namespace's sys crate); earlier ancestors lacking ref/unref
\* are skipped and cause no failure.
C4_FirstAncestorWithRefUnref ==
    (IsFundamentalCall /\ call.parents # <<>> /\ Suppliers # {}
     /\ \A i \in 1..Len(call.parents) : call.parents[i].status = "active")
    => /\ result = "ok"
       /\ Cardinality(LinesOfKind("ref")) = 1 /\ Cardinality(LinesOfKind("unref")) = 1
       /\ TheLine("ref").text =
            << sys_crate_import(FirstSupplier.type_id),
               Unwrap(type_(FirstSupplier.type_id).ref_fn), CastTo(FirstSupplier) >>
       /\ TheLine("unref").text =
            << sys_crate_import(FirstSupplier.type_id),
               Unwrap(type_(FirstSupplier.type_id).unref_fn), CastTo(FirstSupplier) >>

\* C5: with no active ancestors (an empty list, or only ignored or
\* non-class entries) the directly supplied ref and unref are used with the
\* uncast pointer and the main sys crate when both are supplied, and the
\* render fails with a contract violation when either is absent.
NoActiveAncestors ==
    \A i \in 1..Len(call.parents) :
        \/ call.parents[i].status # "active"
        \/ type_(call.parents[i].type_id).kind # "Class"
C5_DirectRefUnrefWithoutAncestors ==
    (IsFundamentalCall /\ NoActiveAncestors)
    => IF IsSome(call.ref_func) /\ IsSome(call.unref_func)
       THEN /\ result = "ok"
            /\ Cardinality(LinesOfKind("ref")) = 1 /\ Cardinality(LinesOfKind("unref")) = 1
            /\ TheLine("ref").text = <<main_sys_crate_name, Unwrap(call.ref_func), "ptr">>
            /\ TheLine("unref").text = <<main_sys_crate_name, Unwrap(call.unref_func), "ptr">>
       ELSE result = "panic"

\* ------------------------------------------------------------------ C10
IsObjectCall == Written /\ call.op = "define_object_type"
ActiveOfKinds(kinds) ==
    {i \in 1..Len(call.parents) :
        /\ call.parents[i].status = "active"
        /\ type_(call.parents[i].type_id).kind \in kinds}
\* the rendered names of the entries at the indices I, in declaration order
NamesAt(I) ==
    [k \in 1..Cardinality(I) |->
        format_parent_name(
            call.parents[CHOOSE i \in I : Cardinality({j \in I : j <= i}) = k])]
ClauseTokens == SubSeq(TheLine("struct").text, 7, Len(TheLine("struct").text))
ClassNames == NamesAt(ActiveOfKinds({"Class"}))
InterfaceNames == NamesAt(ActiveOfKinds({"Interface"}))
AllActiveNames == NamesAt(ActiveOfKinds({"Class", "Interface"}))

\* C10: a non-interface object renders "@extends" with exactly its class
\* ancestors (only if there is one), then "@implements" with exactly its
\* interface ancestors (only if there is one), a comma between the clauses
\* exactly when both are present; an interface renders one "@requires"
\* clause with all active ancestors; no active ancestors, no clause.
C10_AncestorClauses ==
    IsObjectCall =>
        /\ result = "ok"
        /\ Cardinality(LinesOfKind("struct")) = 1
        /\ IF call.is_interface
           THEN ClauseTokens = IF AllActiveNames = <<>> THEN <<>>
                               ELSE <<"@requires">> \o AllActiveNames
           ELSE ClauseTokens =
                  (IF ClassNames = <<>> THEN <<>> ELSE <<"@extends">> \o ClassNames)
                  \o (IF ClassNames # <<>> /\ InterfaceNames # <<>> THEN <<",">> ELSE <<>>)
                  \o (IF InterfaceNames = <<>> THEN <<>>
                      ELSE <<"@implements">> \o InterfaceNames)
C10_Witness ==
    /\ IsObjectCall /\ ~call.is_interface
    /\ ClassNames # <<>> /\ InterfaceNames # <<>>
    /\ \E i \in 1..Len(ClauseTokens) : ClauseTokens[i] = ","

\* -------------------------------------------------------- C6, C7, C8
IsUsesCall == Written /\ call.op = "uses" /\ result = "ok"
Requests == {call.imports[i] : i \in 1..Len(call.imports)}
UseLines == LinesOfKind("use")
\* the lines of a group: the guards written since the previous use line
\* (or since the leading blank line), then the use line u
GroupStart(u) ==
    LET before == {1} \cup {j \in UseLines : j < u}
    IN  1 + CHOOSE j \in before : \A k \in before : k <= j
GroupGuards(u) == SubSeq(out, GroupStart(u), u - 1)
UseCrate(u) == out[u].text[1]
UseSymbols(u) == Tail(out[u].text)
Lists(u, req) ==
    /\ UseCrate(u) = req.name[1]
    /\ \E k \in 1..Len(UseSymbols(u)) : UseSymbols(u)[k] = req.name[2]
\* the version bound a request keeps: its own, unless the outer version or
\* the minimum required version is at least as strict
ExpectedVersion(req) ==
    IF /\ IsSome(req.scope.version)
       /\ IsSome(call.outer_version) => VersionGT(Unwrap(req.scope.version), Unwrap(call.outer_version))
       /\ IsSome(MainBaseline) => VersionGT(Unwrap(req.scope.version), Unwrap(MainBaseline))
    THEN req.scope.version
    ELSE None
ExpectedGroups ==
    {<<r.name[1], r.scope.constraints, ExpectedVersion(r)>> : r \in Requests}
ConstraintPair(cs) ==
    IF cs = <<>> THEN <<>>
    ELSE << Line("cfg_any_dox", 0, FALSE, ConstraintsPred(cs), <<>>),
            Line("cfg_attr_doc", 0, FALSE, ConstraintsPred(cs), <<>>) >>
VersionSingle(v) ==
    IF IsNone(v) THEN <<>>
    ELSE << Line("cfg_any_dox", 0, FALSE, to_cfg(Unwrap(v), None), <<>>) >>
VersionPair(v) ==
    IF IsNone(v) THEN <<>>
    ELSE << Line("cfg_any_dox", 0, FALSE, to_cfg(Unwrap(v), None), <<>>),
            Continued(Line("cfg_attr_doc", 0, FALSE, to_cfg(Unwrap(v), None), <<>>)) >>

\* C6: requests with the same namespace and the same normalized scope form
\* exactly one group, and the symbol list of every use statement is free of
\* duplicates and sorted lexically, whatever the order of the requests.
C6_GroupsSortedDeduplicated ==
    IsUsesCall =>
        /\ Cardinality(UseLines) = Cardinality(ExpectedGroups)
        /\ \A r \in Requests : Cardinality({u \in UseLines : Lists(u, r)}) = 1
        /\ \A u \in UseLines :
              \A k \in 1..(Len(UseSymbols(u)) - 1) :
                  StrLess(UseSymbols(u)[k], UseSymbols(u)[k + 1])

\* the requests whose version bound is not stricter than the minimum
\* required version or than the outer version
Collapses(r) == IsSome(r.scope.version) /\ IsNone(ExpectedVersion(r))
HasVersionGuard(u) ==
    \E j \in GroupStart(u)..(u - 1) : IsSome(out[j].pred.v)

\* C7 as stated: such a request lands in the no-scope group of its
\* namespace (a use statement with no guard at all).
C7_CollapsesToNoScopeGroup ==
    IsUsesCall =>
        \A r \in {q \in Requests : Collapses(q)} :
            \E u \in UseLines : Lists(u, r) /\ GroupGuards(u) = <<>>

\* C7, amended: a request whose version bound is not stricter than the
\* minimum required version or than the outer version has the bound
\* collapsed to none: the use statement listing it has no version guard;
\* it is the no-scope group when the request has no feature constraints,
\* and otherwise the group guarded by its constraints alone, and it lists
\* every request of the namespace with these constraints and no version.
C7_CollapsedVersionNoGuard ==
    IsUsesCall =>
        \A r \in {q \in Requests : Collapses(q)} :
            /\ \E u \in UseLines : Lists(u, r)
            /\ \A u \in UseLines : Lists(u, r) =>
                  /\ ~HasVersionGuard(u)
                  /\ GroupGuards(u) = ConstraintPair(r.scope.constraints)
                  /\ \A q \in Requests :
                        (/\ q.name[1] = r.name[1]
                         /\ q.scope.constraints = r.scope.constraints
                         /\ IsNone(ExpectedVersion(q))) => Lists(u, q)
C7_Witness ==
    /\ IsUsesCall
    /\ \E r \in Requests :
          /\ Collapses(r) /\ r.scope.version = MainBaseline
          /\ r.scope.constraints = <<>>
          /\ \E u \in UseLines : Lists(u, r) /\ GroupGuards(u) = <<>>
    /\ \E r \in Requests : IsNone(r.scope.version) /\ r.scope.constraints = <<>>
    /\ Cardinality(UseLines) = 1

\* C8 as stated: per group, the constraint guard and its documentation
\* twin (if constraints), then the version guard as one cfg line with no
\* documentation twin (if a version bound), then one use statement.
C8_GroupLineOrderSingleGuard ==
    IsUsesCall =>
        /\ Cardinality(UseLines) = Cardinality(ExpectedGroups)
        /\ \A r \in Requests : \A u \in UseLines : Lists(u, r) =>
              GroupGuards(u) = ConstraintPair(r.scope.constraints)
                               \o VersionSingle(ExpectedVersion(r))

\* C8, amended: per group, the constraint guard followed by its
\* documentation line (if the scope has constraints), then the version
\* guard in the paired form, the cfg line followed by its documentation
\* line (if the scope has a version bound), then exactly one use statement
\* listing the symbols of the group.
C8_GroupLineOrder ==
    IsUsesCall =>
        /\ Cardinality(UseLines) = Cardinality(ExpectedGroups)
        /\ Requests # {} => out[Len(out)].kind = "use"
        /\ \A r \in Requests :
              /\ Cardinality({u \in UseLines : Lists(u, r)}) = 1
              /\ \A u \in UseLines : Lists(u, r) =>
                    GroupGuards(u) = ConstraintPair(r.scope.constraints)
                                     \o VersionPair(ExpectedVersion(r))
C8_Witness ==
    /\ IsUsesCall
    /\ \E r \in Requests : \E u \in UseLines :
          /\ Lists(u, r)
          /\ r.scope.constraints # <<>> /\ IsSome(ExpectedVersion(r))
          /\ Len(GroupGuards(u)) = 4
          /\ Len(UseSymbols(u)) = 2

\* ------------------------------------------------------------------ C11
\* C11: only active ancestor entries take part: an ignored or unspecified
\* entry is never the source of ref/unref in define_fundamental_type and
\* never appears in the @requires / @extends / @implements lists of
\* define_object_type.
ActiveParents == {i \in 1..Len(call.parents) : call.parents[i].status = "active"}
ClauseMarkers == {"@requires", "@extends", "@implements", ","}
C11_OnlyActiveAncestors ==
    /\ (IsFundamentalCall /\ result = "ok" /\ call.parents # <<>>) =>
          \E i \in ActiveParents :
              /\ HasRefUnref(call.parents[i])
              /\ TheLine("ref").text[2] = Unwrap(type_(call.parents[i].type_id).ref_fn)
              /\ TheLine("unref").text[2] = Unwrap(type_(call.parents[i].type_id).unref_fn)
    /\ (IsObjectCall /\ result = "ok") =>
          \A k \in 1..Len(ClauseTokens) :
              \/ ClauseTokens[k] \in ClauseMarkers
              \/ \E i \in ActiveParents : ClauseTokens[k] = format_parent_name(call.parents[i])

\* ------------------------------------------------------------------ C12
\* what the finished call renders on a sink that accepts every write
FullRender ==
    CASE call.op = "version_condition" ->
            version_condition(env, call.ns_id, call.version, call.commented, call.indent)
      [] call.op = "version_condition_no_doc" ->
            version_condition_no_doc(env, call.ns_id, call.version, call.commented, call.indent)
      [] call.op = "define_boxed_type" -> define_boxed_type(env, call)
      [] call.op = "define_auto_boxed_type" -> define_auto_boxed_type(call)
      [] call.op = "define_shared_type" -> define_shared_type(env, call)
      [] call.op = "define_fundamental_type" -> define_fundamental_type(call).lines
      [] call.op = "define_object_type" -> define_object_type(call).lines
      [] call.op = "uses" -> uses(env, call.imports, call.outer_version).lines
      [] call.op \in {"cfg_deprecated", "cfg_condition", "cfg_condition_no_doc",
                      "cfg_condition_doc", "derives", "doc_alias", "doc_hidden",
                      "allow_deprecated"} -> HelperRender(env, call)
      [] OTHER -> <<>>
FailingWrite == pc = "done" /\ IsSome(fail_at)
                /\ Unwrap(fail_at) <= Cardinality(WriteStarts(FullRender))

\* C12: when the k-th write on the sink fails, the entry point returns that
\* error at once: the result is the error, exactly k writes were attempted,
\* and the sink holds the first k - 1 writes of the render and nothing
\* later; a sink that accepts every write never yields the error.
C12_WriteErrorReturnedAtOnce ==
    /\ FailingWrite =>
          /\ result = "err"
          /\ attempts = Unwrap(fail_at)
          /\ Len(out) < Len(FullRender)
          /\ out = SubSeq(FullRender, 1, Len(out))
          /\ Cardinality(WriteStarts(out)) = Unwrap(fail_at) - 1
          /\ (Len(out) + 1) \in WriteStarts(FullRender)
    /\ (pc = "done" /\ ~FailingWrite) => (result # "err" /\ out = FullRender)
C12_Witness ==
    /\ FailingWrite
    /\ call.op = "uses"
    /\ fail_at = Some(2)
    /\ result = "err"
    /\ Len(out) = 1
    /\ Len(FullRender) > 3

\* ------------------------------------------------------------------ C13
IsEscapeCall == pc = "done" /\ call.op = "escape_string"
Specials == {"\"", "\\"}
SpecialsUpTo(i) == Cardinality({j \in 1..i : call.s[j] \in Specials})
\* where the i-th input char stands in the returned string
PosOf(i) == i + SpecialsUpTo(i)

\* C13: escape_string puts exactly one backslash before every double quote
\* and every backslash of its input and leaves every other char as it is,
\* in order; the empty string gives the empty string and a string with
\* neither char is returned unchanged.
C13_EscapesQuoteAndBackslash ==
    IsEscapeCall =>
        /\ Len(ret) = Len(call.s) + SpecialsUpTo(Len(call.s))
        /\ \A i \in 1..Len(call.s) :
              /\ ret[PosOf(i)] = call.s[i]
              /\ call.s[i] \in Specials => ret[PosOf(i) - 1] = "\\"
        /\ call.s = <<>> => ret = <<>>
        /\ SpecialsUpTo(Len(call.s)) = 0 => ret = call.s
C13_Witness ==
    /\ IsEscapeCall
    /\ call.s = <<"'", "\"", "\\">>
    /\ ret = <<"'", "\\", "\"", "\\", "\\">>

\* ------------------------------------------------------------------ C15
HelperOps == {"cfg_deprecated", "version_condition", "version_condition_no_doc",
              "cfg_condition", "cfg_condition_no_doc", "cfg_condition_doc",
              "derives", "doc_alias", "doc_hidden", "allow_deprecated"}
IsHelperCall == Written /\ call.op \in HelperOps
\* the helper has a parameter that neutralizes its output
AcceptsCommented == "commented" \in DOMAIN call \/ "comment_prefix" \in DOMAIN call
CommentedSet ==
    \/ "commented" \in DOMAIN call /\ call.commented
    \/ "comment_prefix" \in DOMAIN call /\ call.comment_prefix = "//"
\* the same call with the flag unset
Unset ==
    IF "commented" \in DOMAIN call THEN [call EXCEPT !.commented = FALSE]
    ELSE [call EXCEPT !.comment_prefix = ""]
Neutralized(lines) == [i \in 1..Len(lines) |-> [lines[i] EXCEPT !.commented = TRUE]]
SameLinesNeutralized ==
    /\ CommentedSet => out = Neutralized(HelperRender(env, Unset))
    /\ ~CommentedSet => \A i \in 1..Len(out) : ~out[i].commented

UsesListing(r) == {u \in UseLines : Lists(u, r)}
Gated(u) == GroupGuards(u) # <<>>

\* C16: import conservation in uses(): every requested (namespace, symbol)
\* pair is listed by exactly one use statement, which names the request's
\* namespace; no use statement lists a symbol that was not requested or
\* lists one twice; there are as many use statements as distinct
\* (namespace, normalized scope) keys; and within a namespace the ungated
\* use statement comes before the gated ones.
C16_ImportConservation ==
    IsUsesCall =>
        /\ \A r \in Requests :
              /\ Cardinality(UsesListing(r)) = 1
              /\ \A u \in UsesListing(r) : UseCrate(u) = r.name[1]
        /\ \A u \in UseLines :
              /\ \A k \in 1..Len(UseSymbols(u)) :
                    \E r \in Requests : r.name = <<UseCrate(u), UseSymbols(u)[k]>>
              /\ \A k, m \in 1..Len(UseSymbols(u)) :
                    UseSymbols(u)[k] = UseSymbols(u)[m] => k = m
        /\ Cardinality(UseLines) = Cardinality(ExpectedGroups)
        /\ \A u, v \in UseLines :
              (UseCrate(u) = UseCrate(v) /\ ~Gated(u) /\ Gated(v)) => u < v
C16_Witness ==
    /\ IsUsesCall
    /\ Cardinality(Requests) = 2
    /\ \E u, v \in UseLines :
          /\ u < v /\ UseCrate(u) = UseCrate(v)
          /\ ~Gated(u) /\ Gated(v)
          /\ \E r \in Requests : IsSome(ExpectedVersion(r)) /\ Lists(v, r)
====
